---- MODULE Spec2Model ----
(***************************************************************************)
(* Alphabetical app grid extension: the synchronization controller of      *)
(* src/extension/extension.js (ExtensionManager, AppGridExtension) and the *)
(* ordering engine it calls (lib/AppGridHelper.js: compareItems,           *)
(* reorderFolderContents, reloadAppGrid).                                  *)
(*                                                                         *)
(* Time is counted in ticks: a GLib timeout of 100 ms is DebounceTicks     *)
(* ticks.  A timer whose countdown reached 0 may be dispatched at once or  *)
(* later (the main loop gives no upper bound).                             *)
(***************************************************************************)
EXTENDS Integers, Sequences, FiniteSets, TLC

\* The 100 ms of GLib.timeout_add, in ticks.
DebounceTicks == 2

\* ------------------------------------------------------- names and strings
\* A displayName is a sequence of characters.
Chars == {"a", "A", "b", "B"}

ToLower(c) == IF c = "A" THEN "a" ELSE IF c = "B" THEN "b" ELSE c

Ord(c) == IF c = "a" THEN 1 ELSE IF c = "b" THEN 2 ELSE IF c = "A" THEN 11 ELSE 12

LowerCase(s) == [k \in 1..Len(s) |-> ToLower(s[k])]

RECURSIVE LexCompare(_, _)
\* Lexicographic comparison of two character sequences by Ord: -1, 0 or 1.
LexCompare(s, t) ==
  IF s = <<>> /\ t = <<>> THEN 0
  ELSE IF s = <<>> THEN -1
  ELSE IF t = <<>> THEN 1
  ELSE IF Ord(Head(s)) < Ord(Head(t)) THEN -1
  ELSE IF Ord(Head(s)) > Ord(Head(t)) THEN 1
  ELSE LexCompare(Tail(s), Tail(t))

\* Case-insensitive lexicographic comparison of two displayNames.
alphabeticalSort(n1, n2) == LexCompare(LowerCase(n1), LowerCase(n2))

\* The displayNames used as inputs: case twins, a prefix pair, both letters.
Names == {<<"a">>, <<"A">>, <<"b">>, <<"a", "b">>}

\* Longest child list of a folder given to the engine.
MaxChildren == 3

\* ------------------------------------------------------- folder contents
RECURSIVE InsertSorted(_, _)
\* Stable insertion of name n into the sorted list s (after its equals).
InsertSorted(s, n) ==
  IF s = <<>> THEN <<n>>
  ELSE IF alphabeticalSort(n, Head(s)) < 0 THEN <<n>> \o s
  ELSE <<Head(s)>> \o InsertSorted(Tail(s), n)

RECURSIVE SortNames(_)
\* Stable case-insensitive sort of a child list.
SortNames(s) ==
  IF s = <<>> THEN <<>>
  ELSE InsertSorted(SortNames(SubSeq(s, 1, Len(s) - 1)), s[Len(s)])

\* A sort that puts equal names (case twins) in reverse order: not stable.
RECURSIVE InsertBeforeEquals(_, _)
InsertBeforeEquals(s, n) ==
  IF s = <<>> THEN <<n>>
  ELSE IF alphabeticalSort(n, Head(s)) <= 0 THEN <<n>> \o s
  ELSE <<Head(s)>> \o InsertBeforeEquals(Tail(s), n)

RECURSIVE SortNamesUnstable(_)
SortNamesUnstable(s) ==
  IF s = <<>> THEN <<>>
  ELSE InsertBeforeEquals(SortNamesUnstable(SubSeq(s, 1, Len(s) - 1)), s[Len(s)])

reorderFolderContentsUnstable(fa) == [f \in DOMAIN fa |-> SortNamesUnstable(fa[f])]

\* Every folder's stored child order is replaced by its sorted order.
reorderFolderContents(fa) == [f \in DOMAIN fa |-> SortNames(fa[f])]

\* --------------------------------------------------------- comparator
FolderPositions == {"First", "Last", "Default"}

\* Folder ids; "f3" is never listed in folder-children.
FolderIds == {"f1", "f2", "f3"}

FolderArrays == {<<>>, <<"f1">>, <<"f2">>, <<"f1", "f2">>, <<"f2", "f1">>}

Items == [id : {"app"}, kind : {"App"}, displayName : Names]
           \cup [id : FolderIds, kind : {"Folder"}, displayName : Names]

\* Position of a folder in the pinned order; unlisted folders come after the listed.
PinRank(id, folderArray) ==
  IF \E k \in DOMAIN folderArray : folderArray[k] = id
  THEN CHOOSE k \in DOMAIN folderArray : folderArray[k] = id
  ELSE Len(folderArray) + 1

Sign(n) == IF n < 0 THEN -1 ELSE IF n > 0 THEN 1 ELSE 0

\* Two items of one bucket: folders by pin rank, then names.
CompareInBucket(a, b, folderArray) ==
  IF a.kind = "Folder" /\ b.kind = "Folder"
       /\ PinRank(a.id, folderArray) # PinRank(b.id, folderArray)
  THEN Sign(PinRank(a.id, folderArray) - PinRank(b.id, folderArray))
  ELSE alphabeticalSort(a.displayName, b.displayName)

\* compareItems that compares names by raw character order.
compareItemsCaseSensitive(a, b, folderPosition, folderArray) ==
  IF a.kind = b.kind \/ folderPosition \notin {"First", "Last"}
  THEN IF a.kind = "Folder" /\ b.kind = "Folder"
            /\ PinRank(a.id, folderArray) # PinRank(b.id, folderArray)
       THEN Sign(PinRank(a.id, folderArray) - PinRank(b.id, folderArray))
       ELSE LexCompare(a.displayName, b.displayName)
  ELSE IF folderPosition = "First"
  THEN (IF a.kind = "Folder" THEN -1 ELSE 1)
  ELSE (IF a.kind = "Folder" THEN 1 ELSE -1)

\* compareItems(a, b, folderPosition, folderArray).
compareItems(a, b, folderPosition, folderArray) ==
  IF a.kind = b.kind \/ folderPosition \notin {"First", "Last"}
  THEN CompareInBucket(a, b, folderArray)
  ELSE IF folderPosition = "First"
  THEN (IF a.kind = "Folder" THEN -1 ELSE 1)
  ELSE (IF a.kind = "Folder" THEN 1 ELSE -1)

\* ---------------------------------------------------------------- state
VARIABLES
  gridReorder,        \* ExtensionManager._gridReorder: 0 (null) or an instance
  insts,              \* the AppGridExtension objects still referenced
  conns,              \* per event source, the instances whose handler is connected
  timers,             \* pending GLib timeout sources: id -> [inst, left]
  updatingPages,      \* AppDisplay._pageManager._updatingPages
  stateAdjustment,    \* Controls._stateAdjustment.value
  extensionSettings,  \* the extension's gsettings
  loggingEnabled,     \* the module-level flag
  appDisplay,         \* the host's two method slots
  folderApps,         \* stored child order of every folder
  lastOp,             \* what the last step was and what it ran, in order
  history,            \* observations kept for the properties
  engine              \* the ordering engine applied to given inputs

vars == <<gridReorder, insts, conns, timers, updatingPages, stateAdjustment,
          extensionSettings, loggingEnabled, appDisplay, folderApps, lastOp, history,
          engine>>

\* The comparator with no pinned order handed on.
patchedCompareItemsNoFolders(es, fs, a, b) ==
  compareItems(a, b, es.folderOrderPosition, <<>>)

\* The comparator with the values the settings had when patchShell ran.
patchedCompareItemsAtPatchTime(es, fs, a, b) ==
  IF engine.op = "pass"
  THEN compareItems(a, b, engine.patchEs.folderOrderPosition, engine.patchFs.folderChildren)
  ELSE compareItems(a, b, es.folderOrderPosition, fs.folderChildren)

\* _patchedCompareItems(a, b): both settings are read at the call.
patchedCompareItems(es, fs, a, b) ==
  compareItems(a, b, es.folderOrderPosition, fs.folderChildren)

\* The signals startListeners subscribes to.
Sources == {"app-picker-layout", "item-drag-end", "favorite-apps", "settings-changed",
            "installed-changed", "folder-children", "overview-state"}

ControlsStates == {"HIDDEN", "WINDOW_PICKER", "APP_GRID"}

Methods == {"_compareItems", "_redisplay"}

HostMethods == [_compareItems |-> "hostCompareItems", _redisplay |-> "hostRedisplay"]

\* The folders of the running shell and the child lists a user can give them.
Folders == {"f1"}

ChildLists == {<<<<"b">>, <<"a">>>>, <<<<"a">>, <<"A">>>>, <<<<"A">>, <<"a">>>>}

\* The program state the operations read and write, as one record, with the
\* log of what the running step has done so far.
World ==
  [gridReorder |-> gridReorder, insts |-> insts, conns |-> conns, timers |-> timers,
   updatingPages |-> updatingPages, stateAdjustment |-> stateAdjustment,
   extensionSettings |-> extensionSettings, loggingEnabled |-> loggingEnabled,
   appDisplay |-> appDisplay, folderApps |-> folderApps, log |-> <<>>,
   nested |-> {}]

\* The calls of the controller during which the step delivers a signal
\* synchronously: the write of the folder sort emits the folders' change
\* signal, the host's rebuild emits the layout's.
NestPoints == {"sort", "redisplay"}

NestedSignal == [sort |-> "folder-children", redisplay |-> "app-picker-layout"]

Nesting(n) == [World EXCEPT !.nested = n]

Logged(w, e, i) == [w EXCEPT !.log = Append(@, <<e, i>>)]

\* The reorderGrid calls the step made on instance i.
Calls(log, i) == {k \in DOMAIN log : log[k][1] \in {"accept", "drop"} /\ log[k][2] = i}

Ran(log, e) == \E k \in DOMAIN log : log[k][1] = e

\* GLib hands out an id no pending source has.
NewSourceId(ts) == CHOOSE n \in 1..(Cardinality(DOMAIN ts) + 1) : n \notin DOMAIN ts

RemoveSource(ts, id) == [k \in DOMAIN ts \ {id} |-> ts[k]]

\* AppDisplay._redisplay(): whatever function the slot holds is called.
Redisplay(w, i) ==
  Logged(w, IF w.updatingPages THEN "redisplay-while-updating" ELSE "redisplay", i)

RECURSIVE reorderGrid(_, _)
\* A signal emitted inside the call at point p runs the handler instance i
\* connected to it, which calls reorderGrid, before the call returns.
Nested(w, p, i) ==
  IF p \in w.nested /\ i \in w.conns[NestedSignal[p]]
  THEN reorderGrid(Logged([w EXCEPT !.nested = @ \ {p}], "nested", i), i)
  ELSE w

\* reorderFolderContents on the folder store, with the signal its write emits.
SortFolders(w, i) ==
  Nested(Logged([w EXCEPT !.folderApps = reorderFolderContents(@)], "sort", i), "sort", i)

\* reorderGrid that takes the lock after the folder sort.
reorderGridLockAfterSort(w, i) ==
  IF ~w.insts[i].currentlyUpdating /\ ~w.updatingPages
  THEN LET w1 == Logged(w, "accept", i)
           w2 == IF w1.extensionSettings.sortFolderContents
                 THEN SortFolders(w1, i)
                 ELSE w1
           w3 == [w2 EXCEPT !.insts[i].currentlyUpdating = TRUE]
           id == NewSourceId(w3.timers)
       IN  Logged([w3 EXCEPT !.timers = (id :> [inst |-> i, left |-> DebounceTicks]) @@ @,
                             !.insts[i].reorderGridTimeoutId = id], "timeout_add", i)
  ELSE Logged(w, "drop", i)

\* reorderGrid without the test of the host's _updatingPages.
reorderGridIgnoresHost(w, i) ==
  IF ~w.insts[i].currentlyUpdating
  THEN LET w1 == Logged([w EXCEPT !.insts[i].currentlyUpdating = TRUE], "accept", i)
           w2 == IF w1.extensionSettings.sortFolderContents
                 THEN SortFolders(w1, i)
                 ELSE w1
           id == NewSourceId(w2.timers)
       IN  Logged([w2 EXCEPT !.timers = (id :> [inst |-> i, left |-> DebounceTicks]) @@ @,
                             !.insts[i].reorderGridTimeoutId = id], "timeout_add", i)
  ELSE Logged(w, "drop", i)

\* reorderGrid that sorts the folder contents whatever sort-folder-contents says.
reorderGridAlwaysSorts(w, i) ==
  IF ~w.insts[i].currentlyUpdating /\ ~w.updatingPages
  THEN LET w1 == Logged([w EXCEPT !.insts[i].currentlyUpdating = TRUE], "accept", i)
           w2 == SortFolders(w1, i)
           id == NewSourceId(w2.timers)
       IN  Logged([w2 EXCEPT !.timers = (id :> [inst |-> i, left |-> DebounceTicks]) @@ @,
                             !.insts[i].reorderGridTimeoutId = id], "timeout_add", i)
  ELSE Logged(w, "drop", i)

\* reorderGrid without the lock test.
reorderGridNoLock(w, i) ==
  IF ~w.updatingPages
  THEN LET w1 == Logged([w EXCEPT !.insts[i].currentlyUpdating = TRUE], "accept", i)
           w2 == IF w1.extensionSettings.sortFolderContents
                 THEN SortFolders(w1, i)
                 ELSE w1
           id == NewSourceId(w2.timers)
       IN  Logged([w2 EXCEPT !.timers = (id :> [inst |-> i, left |-> DebounceTicks]) @@ @,
                             !.insts[i].reorderGridTimeoutId = id], "timeout_add", i)
  ELSE Logged(w, "drop", i)

\* reorderGrid that takes the lock and sorts but schedules no timer.
reorderGridNoTimer(w, i) ==
  IF ~w.insts[i].currentlyUpdating /\ ~w.updatingPages
  THEN LET w1 == Logged([w EXCEPT !.insts[i].currentlyUpdating = TRUE], "accept", i)
       IN  IF w1.extensionSettings.sortFolderContents
           THEN SortFolders(w1, i)
           ELSE w1
  ELSE Logged(w, "drop", i)

\* reorderGrid(logText) of instance i.
reorderGrid(w, i) ==
  IF ~w.insts[i].currentlyUpdating /\ ~w.updatingPages
  THEN LET w1 == Logged([w EXCEPT !.insts[i].currentlyUpdating = TRUE], "accept", i)
           w2 == IF w1.extensionSettings.sortFolderContents
                 THEN SortFolders(w1, i)
                 ELSE w1
           id == NewSourceId(w2.timers)
       IN  Logged([w2 EXCEPT !.timers = (id :> [inst |-> i, left |-> DebounceTicks]) @@ @,
                             !.insts[i].reorderGridTimeoutId = id], "timeout_add", i)
  ELSE Logged(w, "drop", i)

\* A callback that keeps the lock.
TimeoutCallbackKeepsLock(w, i) ==
  LET w1 == Nested(Redisplay(w, i), "redisplay", i)
  IN  [w1 EXCEPT !.insts[i].reorderGridTimeoutId = 0]

\* A callback that sorts the folder contents after its redisplay.
TimeoutCallbackSortsAfter(w, i) ==
  LET w1 == Nested(Redisplay(w, i), "redisplay", i)
      w2 == IF w1.extensionSettings.sortFolderContents
            THEN SortFolders(w1, i)
            ELSE w1
  IN  [w2 EXCEPT !.insts[i].currentlyUpdating = FALSE,
                 !.insts[i].reorderGridTimeoutId = 0]

\* The callback of the timeout source: redisplay, release the lock, forget the id.
TimeoutCallback(w, i) ==
  LET w1 == Nested(Redisplay(w, i), "redisplay", i)
  IN  [w1 EXCEPT !.insts[i].currentlyUpdating = FALSE,
                 !.insts[i].reorderGridTimeoutId = 0]

\* -------------------------------------------------- patching the host
\* InjectionManager.overrideMethod: remember the slot's value, install the override.
overrideMethod(w, i, m, f) ==
  [w EXCEPT !.insts[i].savedMethods = (m :> w.appDisplay[m]) @@ @,
            !.appDisplay[m] = f]

patchShell(w, i) ==
  overrideMethod(overrideMethod(w, i, "_compareItems", "_patchedCompareItems"),
                 i, "_redisplay", "reloadAppGrid")

\* unpatchShell that restores the comparator only.
unpatchShellCompareOnly(w, i) ==
  LET saved == w.insts[i].savedMethods
  IN  [w EXCEPT !.appDisplay = [m \in Methods |->
                    IF m \in DOMAIN saved /\ m = "_compareItems" THEN saved[m] ELSE @[m]],
                !.insts[i].savedMethods = <<>>]

\* unpatchShell: InjectionManager.clear() puts back every saved method.
unpatchShell(w, i) ==
  LET saved == w.insts[i].savedMethods
  IN  [w EXCEPT !.appDisplay = [m \in Methods |->
                    IF m \in DOMAIN saved THEN saved[m] ELSE @[m]],
                !.insts[i].savedMethods = <<>>]

\* ------------------------------------------------------------ listeners
startListeners(w, i) == [w EXCEPT !.conns = [s \in Sources |-> @[s] \cup {i}]]

\* disconnectListeners that leaves the overview's notify::value connected.
disconnectListenersKeepsOverview(w, i) ==
  LET w1 == [w EXCEPT !.conns = [s \in Sources |->
                         IF s = "overview-state" THEN @[s] ELSE @[s] \ {i}]]
      id == w1.insts[i].reorderGridTimeoutId
  IN  IF id # 0
      THEN Logged([w1 EXCEPT !.timers = RemoveSource(@, id)], "source_remove", i)
      ELSE w1

\* disconnectListeners that leaves the pending timeout source alone.
disconnectListenersKeepTimer(w, i) ==
  [w EXCEPT !.conns = [s \in Sources |-> @[s] \ {i}]]

disconnectListeners(w, i) ==
  LET w1 == [w EXCEPT !.conns = [s \in Sources |-> @[s] \ {i}]]
      id == w1.insts[i].reorderGridTimeoutId
  IN  IF id # 0
      THEN Logged([w1 EXCEPT !.timers = RemoveSource(@, id)], "source_remove", i)
      ELSE w1

\* Handlers whose overview callback disconnects itself once it has asked for
\* a reorder.
HandlerOpensOnce(w, s, i) ==
  IF s = "settings-changed"
  THEN reorderGrid(Logged([w EXCEPT !.loggingEnabled = w.extensionSettings.loggingEnabled],
                          "loggingEnabled", i), i)
  ELSE IF s = "overview-state"
  THEN IF w.stateAdjustment = "APP_GRID"
       THEN [reorderGrid(w, i) EXCEPT !.conns["overview-state"] = @ \ {i}]
       ELSE Logged(w, "ignore", i)
  ELSE reorderGrid(w, i)

\* Handlers whose settings callback updates the flag only when its reorderGrid
\* call is accepted.
HandlerFlagWhenAccepted(w, s, i) ==
  IF s = "settings-changed"
  THEN LET w1 == reorderGrid(w, i)
       IN  IF Ran(w1.log, "accept")
           THEN Logged([w1 EXCEPT !.loggingEnabled = w.extensionSettings.loggingEnabled],
                       "loggingEnabled", i)
           ELSE w1
  ELSE IF s = "overview-state"
  THEN IF w.stateAdjustment = "APP_GRID" THEN reorderGrid(w, i) ELSE Logged(w, "ignore", i)
  ELSE reorderGrid(w, i)

\* The callback connected to source s by instance i.
Handler(w, s, i) ==
  IF s = "settings-changed"
  THEN reorderGrid(Logged([w EXCEPT !.loggingEnabled = w.extensionSettings.loggingEnabled],
                          "loggingEnabled", i), i)
  ELSE IF s = "overview-state"
  THEN IF w.stateAdjustment = "APP_GRID" THEN reorderGrid(w, i) ELSE Logged(w, "ignore", i)
  ELSE reorderGrid(w, i)

RECURSIVE EmitTo(_, _, _)
\* A signal emission runs the connected handlers in connection order.
EmitTo(w, s, is) ==
  IF is = {} THEN w
  ELSE LET i == CHOOSE x \in is : \A y \in is : x <= y
       IN  EmitTo(Handler(w, s, i), s, is \ {i})

Emit(w, s) == EmitTo(w, s, w.conns[s])

\* ------------------------------------------------------------ lifecycle
NewInstance == [currentlyUpdating |-> FALSE, reorderGridTimeoutId |-> 0,
                savedMethods |-> <<>>]

\* A new object is none of the objects still referenced.
NewInstanceId(is) == CHOOSE n \in 1..(Cardinality(DOMAIN is) + 1) : n \notin DOMAIN is

enable(w) ==
  LET i  == NewInstanceId(w.insts)
      w1 == [w EXCEPT !.insts = (i :> NewInstance) @@ @, !.gridReorder = i]
      w2 == [w1 EXCEPT !.loggingEnabled = w1.extensionSettings.loggingEnabled]
      w3 == Redisplay(w2, i)
      w4 == patchShell(w3, i)
      w5 == startListeners(w4, i)
  IN  reorderGrid(w5, i)

\* disable(): on a null _gridReorder the first call throws.
disable(w) ==
  IF w.gridReorder = 0 THEN Logged(w, "TypeError", 0)
  ELSE LET i  == w.gridReorder
           w1 == disconnectListeners(w, i)
           w2 == unpatchShell(w1, i)
       IN  [w2 EXCEPT !.gridReorder = 0]

\* --------------------------------------------------------- observations
\* The signals that report a change of the app set, favourites, folders,
\* layout or settings.
ChangeSources == Sources \ {"overview-state"}

\* A burst: the reorderGrid calls signal handlers make on the running
\* instance, from a call on an idle controller to DebounceTicks ticks after
\* it, the timeout sources they add and the redisplays those sources run.
NoBurst ==
  [open |-> FALSE, left |-> 0, calls |-> 0, timers |-> {}, redisplays |-> 0,
   ready |-> FALSE]

\* Calls and redisplays of a burst are counted up to 2.
UpTo2(n) == IF n < 2 THEN n ELSE 2

BurstDone(b) == b.open /\ b.left = 0 /\ b.timers = {}

ObserveBurst(op, id, w2) ==
  LET b      == history.burst
      i      == w2.gridReorder
      n      == IF i = 0 THEN 0 ELSE Cardinality(Calls(w2.log, i))
      called == n > 0
      idle   == ~insts[i].currentlyUpdating
      added  == DOMAIN w2.timers \ DOMAIN timers
  IN  IF op = "disable" THEN (IF gridReorder = 0 THEN b ELSE NoBurst)
      ELSE IF op = "enable" THEN NoBurst
      ELSE IF op = "timer"
      THEN (IF id \in b.timers
            THEN [b EXCEPT !.timers = @ \ {id},
                           !.redisplays = UpTo2(@ + 1)]
            ELSE b)
      ELSE IF op = "tick" THEN [b EXCEPT !.left = IF @ > 0 THEN @ - 1 ELSE 0]
      ELSE IF ~called THEN b
      ELSE IF ~b.open \/ BurstDone(b)
      THEN (IF idle
            THEN [open |-> TRUE, left |-> DebounceTicks, calls |-> UpTo2(n),
                  timers |-> added, redisplays |-> 0, ready |-> ~updatingPages]
            ELSE NoBurst)
      ELSE IF b.left > 0
      THEN [b EXCEPT !.calls = UpTo2(@ + n), !.timers = @ \cup added,
                     !.ready = @ \/ ~updatingPages]
      ELSE b

\* pending: a change event reached the running controller and no redisplay of
\* the controller has followed it yet.  owed: the same, for the events that
\* arrived with the host not updating pages or with a reorder in flight.
ObserveEvents(op, s, id, w2) ==
  LET i == gridReorder
  IN  IF op = "disable" /\ i # 0 THEN [pending |-> FALSE, owed |-> FALSE]
      ELSE IF op = "timer" /\ i # 0 /\ timers[id].inst = i
      THEN [pending |-> FALSE, owed |-> FALSE]
      ELSE IF op = "emit" /\ s \in ChangeSources /\ i # 0 /\ Calls(w2.log, i) # {}
      THEN [pending |-> TRUE,
            owed |-> history.events.owed \/ insts[i].currentlyUpdating \/ ~updatingPages]
      ELSE history.events

\* The observations below are kept in the behaviours that start with
\* history.tracing set.
\* For every timeout source pending after the step, and for the one the step
\* dispatched: whether sort-folder-contents was set when its reorderGrid call
\* was accepted, whether that call ran the folder sort before it added the
\* source, and whether a signal was delivered inside that sort.
ObserveReorders(op, id, w2) ==
  LET added == DOMAIN w2.timers \ DOMAIN timers
      kept  == (DOMAIN w2.timers \ added) \cup (IF op = "timer" THEN {id} ELSE {})
      log   == w2.log
  IN  [t \in (IF history.tracing THEN added \cup kept ELSE {}) |->
         IF t \in added
         THEN [wanted |-> w2.extensionSettings.sortFolderContents,
               sorted |-> \E k, j \in DOMAIN log :
                            /\ k < j
                            /\ log[k] = <<"sort", w2.timers[t].inst>>
                            /\ log[j] = <<"timeout_add", w2.timers[t].inst>>,
               nested |-> Ran(log, "nested")]
         ELSE history.reorders[t]]

\* The notifications of the overview's state at the value APP_GRID that
\* reached the running controller since enable(), counted up to 2.
ObserveOpened(op, s, w2) ==
  IF ~history.tracing \/ op = "enable" \/ (op = "disable" /\ gridReorder # 0) THEN 0
  ELSE IF op = "emit" /\ s = "overview-state" /\ gridReorder # 0
          /\ w2.stateAdjustment = "APP_GRID"
  THEN UpTo2(history.opened + 1)
  ELSE history.opened

\* The step was an enable() that followed a disable() which removed a pending
\* timeout source.
ObserveRecycled(op) == history.tracing /\ op = "enable" /\ history.cancelled

Observe(op, s, id, w2) ==
  [burst |-> ObserveBurst(op, id, w2),
   events |-> ObserveEvents(op, s, id, w2),
   reorders |-> ObserveReorders(op, id, w2),
   opened |-> ObserveOpened(op, s, w2),
   recycled |-> ObserveRecycled(op),
   tracing |-> history.tracing,
   prePatch |-> IF op = "enable" THEN appDisplay ELSE history.prePatch,
   cancelled |-> IF op = "enable" THEN FALSE
                 ELSE IF op = "disable" /\ gridReorder # 0 THEN Ran(w2.log, "source_remove")
                 ELSE history.cancelled]

\* An AppGridExtension that the manager, a connected handler or a pending
\* timeout callback refers to; the others are garbage.
Referenced(w) ==
  {i \in DOMAIN w.insts :
     \/ i = w.gridReorder
     \/ \E s \in Sources : i \in w.conns[s]
     \/ \E id \in DOMAIN w.timers : w.timers[id].inst = i}

\* The step op (on signal s or timeout source id) leaves the program in world w2.
Step(op, s, id, w2) ==
  /\ gridReorder' = w2.gridReorder
  /\ insts' = [i \in Referenced(w2) |-> w2.insts[i]]
  /\ conns' = w2.conns
  /\ timers' = w2.timers
  /\ updatingPages' = w2.updatingPages
  /\ stateAdjustment' = w2.stateAdjustment
  /\ extensionSettings' = w2.extensionSettings
  /\ loggingEnabled' = w2.loggingEnabled
  /\ appDisplay' = w2.appDisplay
  /\ folderApps' = w2.folderApps
  /\ lastOp' = [op |-> op, signal |-> s, source |-> id, log |-> w2.log]
  /\ history' = Observe(op, s, id, w2)
  /\ UNCHANGED engine

\* -------------------------------------------------------------- actions
SettingsValues == [sortFolderContents : BOOLEAN, loggingEnabled : BOOLEAN]

NoHistory(tracing) ==
  [burst |-> NoBurst, events |-> [pending |-> FALSE, owed |-> FALSE],
   reorders |-> <<>>, opened |-> 0, recycled |-> FALSE, tracing |-> tracing, prePatch |-> HostMethods,
   cancelled |-> FALSE]

\* The program after the module is loaded, before the first enable().
ProgramInit ==
  /\ gridReorder = 0
  /\ insts = <<>>
  /\ conns = [s \in Sources |-> {}]
  /\ timers = <<>>
  /\ updatingPages = FALSE
  /\ stateAdjustment = "HIDDEN"
  /\ extensionSettings \in SettingsValues
  /\ loggingEnabled = FALSE
  /\ appDisplay = HostMethods
  /\ folderApps \in [Folders -> ChildLists]
  /\ lastOp = [op |-> "init", signal |-> "", source |-> 0, log |-> <<>>]

ControllerInit == ProgramInit /\ history = NoHistory(FALSE)

Init == ControllerInit /\ engine = [op |-> "none"]

\* The same program, with the reorders and the openings of the app grid observed.
TracedInit == ProgramInit /\ history = NoHistory(TRUE) /\ engine = [op |-> "none"]

\* The shell enables the extension (it never enables an enabled one).
Enable ==
  /\ gridReorder = 0
  /\ \E n \in SUBSET {"sort"} : Step("enable", "", 0, enable(Nesting(n)))

\* disable() is called.
Disable == Step("disable", "", 0, disable(World))

\* One of the change signals other than the extension's settings is emitted.
EmitChange(s) == \E n \in SUBSET {"sort"} : Step("emit", s, 0, Emit(Nesting(n), s))

\* A key of the extension's settings is written; "changed" is emitted.
SettingsChanged(v) ==
  /\ v # extensionSettings
  /\ \E n \in SUBSET {"sort"} :
       Step("emit", "settings-changed", 0,
            Emit([Nesting(n) EXCEPT !.extensionSettings = v], "settings-changed"))

\* The overview moves to another state; notify::value is emitted.
OverviewNotify(v) ==
  /\ v # stateAdjustment
  /\ \E n \in SUBSET {"sort"} :
       Step("emit", "overview-state", 0,
            Emit([Nesting(n) EXCEPT !.stateAdjustment = v], "overview-state"))

\* The host starts a rebuild of its pages.
HostStartsUpdatingPages ==
  /\ ~updatingPages
  /\ Step("host", "", 0, [World EXCEPT !.updatingPages = TRUE])

\* The host's rebuild of its pages ends.
HostEndsUpdatingPages ==
  /\ updatingPages
  /\ Step("host", "", 0, [World EXCEPT !.updatingPages = FALSE])

\* The user rearranges the children of a folder.
ChangeFolderApps(f, l) ==
  /\ l # folderApps[f]
  /\ Step("folder", "", 0, [World EXCEPT !.folderApps[f] = l])

\* Time passes.
Tick ==
  /\ Step("tick", "", 0, [World EXCEPT !.timers = [id \in DOMAIN timers |->
                         [@[id] EXCEPT !.left = IF @ > 0 THEN @ - 1 ELSE 0]]])

\* The main loop dispatches a due timeout source; SOURCE_REMOVE destroys it.
TimerFire(id) ==
  /\ id \in DOMAIN timers
  /\ timers[id].left = 0
  /\ \E n \in SUBSET {"redisplay"} :
       LET w1 == TimeoutCallback(Nesting(n), timers[id].inst)
       IN  Step("timer", "", id, [w1 EXCEPT !.timers = RemoveSource(@, id)])

Next ==
  \/ Enable
  \/ Disable
  \/ \E s \in ChangeSources \ {"settings-changed"} : EmitChange(s)
  \/ \E v \in SettingsValues : SettingsChanged(v)
  \/ \E v \in ControlsStates : OverviewNotify(v)
  \/ HostStartsUpdatingPages
  \/ HostEndsUpdatingPages
  \/ \E f \in Folders, l \in ChildLists : ChangeFolderApps(f, l)
  \/ Tick
  \/ \E id \in DOMAIN timers : TimerFire(id)

Spec == Init /\ [][Next]_vars

SpecTraced == TracedInit /\ [][Next]_vars

\* The main loop keeps running: time passes, due sources are dispatched and
\* a rebuild the host has started ends.
FairSpec ==
  /\ Spec
  /\ WF_vars(Tick)
  /\ WF_vars(\E id \in DOMAIN timers : TimerFire(id))
  /\ WF_vars(HostEndsUpdatingPages)

\* ------------------------------------------- the engine on given inputs
\* Duplicate-free child lists of at most MaxChildren names.
EngineChildLists ==
  {l \in UNION {[1..n -> Names] : n \in 0..MaxChildren} :
     \A j, k \in DOMAIN l : j # k => l[j] # l[k]}

EngineFolders == {"f1", "f2"}

CompareInputs ==
  [op : {"compare"}, done : {FALSE},
   es : [folderOrderPosition : FolderPositions], fs : [folderChildren : FolderArrays],
   a : Items, b : Items, c : Items, ab : {0}, ba : {0}, bc : {0}, ac : {0}]

ReorderInputs ==
  {[op |-> "reorder", input |-> fa, store |-> fa, prev |-> fa, applied |-> 0] :
     fa \in [EngineFolders -> EngineChildLists]}

\* A redisplay pass that compares a pair twice; patchEs and patchFs are the
\* settings' values when patchShell installed the comparator.
PassInputs ==
  {[op |-> "pass", phase |-> 0, patchEs |-> es, patchFs |-> fs, es |-> es, fs |-> fs,
    a |-> a, b |-> b, first |-> 0, second |-> 0] :
     es \in [folderOrderPosition : FolderPositions], fs \in [folderChildren : FolderArrays],
     a \in Items, b \in Items}

EngineInit ==
  /\ ControllerInit
  /\ extensionSettings = [sortFolderContents |-> TRUE, loggingEnabled |-> FALSE]
  /\ folderApps = [f \in Folders |-> <<<<"b">>, <<"a">>>>]
  /\ engine \in CompareInputs \cup ReorderInputs \cup PassInputs

\* A redisplay pass compares the items pairwise through the patched slot.
CompareStep ==
  /\ engine.op = "compare"
  /\ ~engine.done
  /\ engine' = [engine EXCEPT
        !.done = TRUE,
        !.ab = patchedCompareItems(engine.es, engine.fs, engine.a, engine.b),
        !.ba = patchedCompareItems(engine.es, engine.fs, engine.b, engine.a),
        !.bc = patchedCompareItems(engine.es, engine.fs, engine.b, engine.c),
        !.ac = patchedCompareItems(engine.es, engine.fs, engine.a, engine.c)]
  /\ UNCHANGED <<gridReorder, insts, conns, timers, updatingPages, stateAdjustment,
                 extensionSettings, loggingEnabled, appDisplay, folderApps, lastOp,
                 history>>

\* An accepted reorder sorts the stored folder contents; a second one follows.
ReorderStep ==
  /\ engine.op = "reorder"
  /\ engine.applied < 2
  /\ engine' = [engine EXCEPT !.prev = engine.store,
                              !.store = reorderFolderContents(engine.store),
                              !.applied = @ + 1]
  /\ UNCHANGED <<gridReorder, insts, conns, timers, updatingPages, stateAdjustment,
                 extensionSettings, loggingEnabled, appDisplay, folderApps, lastOp,
                 history>>

\* The pass compares a and b through the patched slot.
PassFirstCompare ==
  /\ engine.op = "pass"
  /\ engine.phase = 0
  /\ engine' = [engine EXCEPT
        !.phase = 1,
        !.first = patchedCompareItems(engine.es, engine.fs, engine.a, engine.b)]
  /\ UNCHANGED <<gridReorder, insts, conns, timers, updatingPages, stateAdjustment,
                 extensionSettings, loggingEnabled, appDisplay, folderApps, lastOp,
                 history>>

\* folder-order-position or folder-children is written while the pass runs;
\* patchShell is not run again.
PassSettingsWritten(p, fa) ==
  /\ engine.op = "pass"
  /\ engine.phase = 1
  /\ <<p, fa>> # <<engine.es.folderOrderPosition, engine.fs.folderChildren>>
  /\ engine' = [engine EXCEPT !.phase = 2,
                              !.es = [folderOrderPosition |-> p],
                              !.fs = [folderChildren |-> fa]]
  /\ UNCHANGED <<gridReorder, insts, conns, timers, updatingPages, stateAdjustment,
                 extensionSettings, loggingEnabled, appDisplay, folderApps, lastOp,
                 history>>

\* The pass compares the same pair again.
PassSecondCompare ==
  /\ engine.op = "pass"
  /\ engine.phase = 2
  /\ engine' = [engine EXCEPT
        !.phase = 3,
        !.second = patchedCompareItems(engine.es, engine.fs, engine.a, engine.b)]
  /\ UNCHANGED <<gridReorder, insts, conns, timers, updatingPages, stateAdjustment,
                 extensionSettings, loggingEnabled, appDisplay, folderApps, lastOp,
                 history>>

EngineNext ==
  \/ CompareStep
  \/ ReorderStep
  \/ PassFirstCompare
  \/ \E p \in FolderPositions, fa \in FolderArrays : PassSettingsWritten(p, fa)
  \/ PassSecondCompare

SpecEngine == EngineInit /\ [][EngineNext]_vars

\* ------------------------------------------------------------ properties
\* What instance i did in the step that led here.
Did(e, i) == \E k \in DOMAIN lastOp.log : lastOp.log[k] = <<e, i>>

\* C1: a reorderGrid call on an instance whose lock is held is dropped: the
\* step that makes it accepts nothing, sorts nothing and adds no timeout
\* source for that instance, and never is more than one timeout source pending.
C1_LockedCallsAreDropped ==
  /\ [](Cardinality(DOMAIN timers) <= 1)
  /\ [][\A i \in DOMAIN insts :
          (insts[i].currentlyUpdating /\ Calls(lastOp'.log, i) # {} /\ lastOp'.op = "emit")
            => /\ timers' = timers
               /\ \A k \in DOMAIN lastOp'.log :
                    lastOp'.log[k] \notin {<<"accept", i>>, <<"sort", i>>, <<"timeout_add", i>>}]_vars

\* A signal reached the running instance while its reorder was in flight and
\* the host was not updating pages: the lock alone dropped the call.
C1_Witness ==
  /\ gridReorder # 0
  /\ lastOp.op = "emit"
  /\ Did("drop", gridReorder)
  /\ ~updatingPages
  /\ insts[gridReorder].currentlyUpdating
  /\ Cardinality(DOMAIN timers) = 1

\* C2 as stated: every finished burst has run exactly one redisplay.
C2_ExactlyOneRedisplayPerBurst ==
  BurstDone(history.burst) => history.burst.redisplays = 1

\* C2, amended: a finished burst has run one redisplay if the host was not
\* updating pages at one of its calls at least, and none otherwise.
C2_OneRedisplayPerReadyBurst ==
  BurstDone(history.burst) =>
    history.burst.redisplays = (IF history.burst.ready THEN 1 ELSE 0)

\* A finished burst of two calls or more with its one redisplay.
C2_Witness ==
  /\ BurstDone(history.burst)
  /\ history.burst.calls = 2
  /\ history.burst.redisplays = 1

\* C3: once disable() has run, no handler is connected, no timeout source is
\* pending, no controller object is referenced any more, and no step but
\* disable() itself runs anything of the controller.
C3_NothingRunsAfterDisable ==
  gridReorder = 0 =>
    /\ \A s \in Sources : conns[s] = {}
    /\ timers = <<>>
    /\ insts = <<>>
    /\ lastOp.op # "disable" => lastOp.log = <<>>

\* disable() came while a reorder was in flight, and a signal was emitted after it.
C3_Witness ==
  /\ gridReorder = 0
  /\ history.cancelled
  /\ lastOp.op = "emit"

\* C4 as stated: the timeout callback never calls _redisplay while the host
\* is updating pages.
C4_NoRedisplayWhileUpdatingPages ==
  ~(lastOp.op = "timer" /\ \E i \in DOMAIN insts : Did("redisplay-while-updating", i))

\* C5 as stated: every change event that reaches the running controller is
\* followed by a redisplay of the controller (or by disable()).
C5_EveryEventIsRedisplayed ==
  history.events.pending ~> ~history.events.pending

\* C5, amended: the change events that arrive with the host not updating
\* pages, or with a reorder in flight, are followed by a redisplay of the
\* controller (or by disable()).
C5_ReadyOrBusyEventsAreRedisplayed ==
  history.events.owed ~> ~history.events.owed

\* A change event has just been dropped by the lock and awaits the redisplay
\* of the reorder in flight, the host updating pages meanwhile.
C5_Witness ==
  /\ gridReorder # 0
  /\ history.events.owed
  /\ lastOp.op = "emit"
  /\ lastOp.signal \in ChangeSources
  /\ Did("drop", gridReorder)
  /\ updatingPages

\* C6: after disable() both slots hold what they held before patchShell();
\* while patched, unpatchShell() would put exactly that back; and
\* unpatchShell() on an instance that has nothing patched, or a second time,
\* changes no slot.
C6_UnpatchRestoresBothSlots ==
  /\ gridReorder = 0 => appDisplay = history.prePatch
  /\ gridReorder # 0 =>
       /\ appDisplay = [_compareItems |-> "_patchedCompareItems",
                        _redisplay |-> "reloadAppGrid"]
       /\ unpatchShell(World, gridReorder).appDisplay = history.prePatch
  /\ \A i \in DOMAIN insts :
       LET once == unpatchShell(World, i)
       IN  unpatchShell(once, i).appDisplay = once.appDisplay
  /\ LET j == NewInstanceId(insts)
     IN  unpatchShell([World EXCEPT !.insts = (j :> NewInstance) @@ @], j).appDisplay
           = appDisplay

\* disable() has just unpatched a patched shell.
C6_Witness ==
  /\ gridReorder = 0
  /\ lastOp.op = "disable"
  /\ ~Did("TypeError", 0)
  /\ appDisplay = HostMethods

\* C7 as stated: no teardown call raises.
C7_TeardownNeverRaises ==
  ~(lastOp.op = "disable" /\ Did("TypeError", 0))

\* The pair a, b of the comparison made.
SameKindDistinctNames ==
  /\ engine.op = "compare"
  /\ engine.done
  /\ engine.a.kind = engine.b.kind
  /\ engine.a.displayName # engine.b.displayName

RankOf(item) == PinRank(item.id, engine.fs.folderChildren)

C9_CompareItemsIsTransitive ==
  (engine.op = "compare" /\ engine.done) =>
    (engine.ab <= 0 /\ engine.bc <= 0 => engine.ac <= 0)

\* C10: a second reorderFolderContents leaves every folder's stored child
\* order as the first one left it.
C10_ReorderFolderContentsIsIdempotent ==
  (engine.op = "reorder" /\ engine.applied = 2) => engine.store = engine.prev

\* The first sort moved children, case twins among them, and the second ran.
C10_Witness ==
  /\ engine.op = "reorder"
  /\ engine.applied = 2
  /\ \A f \in EngineFolders : engine.input[f] # engine.store[f]
  /\ \E f \in EngineFolders : \E j, k \in DOMAIN engine.input[f] :
       j # k /\ alphabeticalSort(engine.input[f][j], engine.input[f][k]) = 0


\* C11: every reorder whose accepting call found sort-folder-contents set ran
\* the folder sort in that call, before its timeout source was added, and the
\* step that dispatches the source (the redisplay of that reorder) runs no
\* folder sort: the sort of a reorder never comes after its redisplay.
C11_SortPrecedesRedisplay ==
  /\ \A t \in DOMAIN history.reorders :
        history.reorders[t].wanted => history.reorders[t].sorted
  /\ lastOp.op = "timer" =>
        /\ lastOp.source \in DOMAIN history.reorders
        /\ ~Ran(lastOp.log, "sort")

C11_Witness ==
  /\ lastOp.op = "timer"
  /\ gridReorder # 0
  /\ Did("redisplay", gridReorder)
  /\ lastOp.source \in DOMAIN history.reorders
  /\ history.reorders[lastOp.source].wanted
  /\ history.reorders[lastOp.source].sorted


\* C19: a signal delivered inside reorderFolderContents or inside the
\* callback's redisplay finds the lock held: the reorderGrid call its handler
\* makes is dropped, so the step that dispatches a timeout source accepts no
\* reorder and no step adds a second timeout source.
C19_NestedTriggersAreDropped ==
  /\ \A k \in DOMAIN lastOp.log :
        lastOp.log[k][1] = "nested" =>
          /\ k + 1 \in DOMAIN lastOp.log
          /\ lastOp.log[k + 1] = <<"drop", lastOp.log[k][2]>>
  /\ lastOp.op = "timer" => ~Ran(lastOp.log, "accept") /\ ~Ran(lastOp.log, "timeout_add")
  /\ Cardinality({k \in DOMAIN lastOp.log : lastOp.log[k][1] = "timeout_add"}) <= 1

\* A reorder whose folder sort delivered a signal, at the dispatch of its
\* source, where the redisplay delivers another; the host is not updating
\* pages, so it is the lock that drops the call.
C19_Witness ==
  /\ lastOp.op = "timer"
  /\ gridReorder # 0
  /\ ~updatingPages
  /\ lastOp.log = <<<<"redisplay", gridReorder>>, <<"nested", gridReorder>>,
                    <<"drop", gridReorder>>>>
  /\ history.reorders[lastOp.source].nested


\* The running controller holds the lock.
Reordering == gridReorder # 0 /\ insts[gridReorder].currentlyUpdating

\* The step ran the grid redisplay of instance i.
Redisplayed(i) == Did("redisplay", i) \/ Did("redisplay-while-updating", i)

\* The step dispatched the timeout source of the running controller, whose
\* callback redisplayed and left the controller idle.
BackToIdle ==
  /\ lastOp.op = "timer"
  /\ gridReorder # 0
  /\ Redisplayed(gridReorder)
  /\ ~insts[gridReorder].currentlyUpdating
  /\ insts[gridReorder].reorderGridTimeoutId = 0

\* C12: while the extension stays enabled, a controller that holds the lock
\* eventually has its timeout source dispatched; the callback redisplays,
\* releases the lock and clears the stored id.  The controller never stays in
\* Reordering forever.
C12_ReorderingLeadsToIdle ==
  /\ [](lastOp.op = "timer" /\ gridReorder # 0 => BackToIdle)
  /\ (Reordering ~> (BackToIdle \/ gridReorder = 0))

C12_Witness == BackToIdle /\ timers = <<>> /\ ~updatingPages


\* C13: a handler's reorderGrid call on an idle controller while the host's
\* _updatingPages is true is dropped: the step leaves the controller's fields,
\* the timeout sources and the folder store as they were and runs no sort.
\* Nothing replays it: a timeout source is only ever added by a step that
\* accepted a call, and the end of the host's rebuild, the clock and the
\* user's folder edits call nothing.
C13_HostUpdatingDropsTrigger ==
  [][/\ (/\ gridReorder # 0
         /\ ~insts[gridReorder].currentlyUpdating
         /\ updatingPages
         /\ lastOp'.op = "emit"
         /\ Calls(lastOp'.log, gridReorder) # {})
        => /\ \A k \in Calls(lastOp'.log, gridReorder) : lastOp'.log[k][1] = "drop"
           /\ ~Ran(lastOp'.log, "sort")
           /\ insts' = insts
           /\ timers' = timers
           /\ folderApps' = folderApps
     /\ ~(DOMAIN timers' \subseteq DOMAIN timers) => Ran(lastOp'.log, "accept")
     /\ lastOp'.op \in {"host", "tick", "folder"}
        => /\ lastOp'.log = <<>>
           /\ insts' = insts
           /\ DOMAIN timers' = DOMAIN timers]_vars

C13_Witness ==
  /\ lastOp.op = "emit"
  /\ gridReorder # 0
  /\ updatingPages
  /\ Did("drop", gridReorder)
  /\ ~insts[gridReorder].currentlyUpdating
  /\ insts[gridReorder].reorderGridTimeoutId = 0
  /\ timers = <<>>


\* C14: every call of the patched comparator uses the values folder-order-position
\* and folder-children have at that call: the comparison before a write uses
\* the old values, the comparison after it uses the new ones, with no run of
\* patchShell in between.
C14_SettingsReadAtEachCall ==
  engine.op = "pass" =>
    /\ engine.phase >= 1 =>
          engine.first = compareItems(engine.a, engine.b,
                            engine.patchEs.folderOrderPosition, engine.patchFs.folderChildren)
    /\ engine.phase = 3 =>
          engine.second = compareItems(engine.a, engine.b,
                            engine.es.folderOrderPosition, engine.fs.folderChildren)

\* Two comparisons of one pair in one pass gave different answers, the pinned
\* order and the folder position having both been written in between.
C14_Witness ==
  /\ engine.op = "pass"
  /\ engine.phase = 3
  /\ engine.es # engine.patchEs
  /\ engine.fs # engine.patchFs
  /\ engine.first # engine.second


\* C15: the step of a change of the extension's settings, with the extension
\* enabled, first sets the module's loggingEnabled flag to the value
\* logging-enabled has now and then calls reorderGrid, whether that call is
\* accepted or dropped; enable() sets the flag the same way.
C15_LoggingFlagFollowsSetting ==
  /\ (lastOp.op = "emit" /\ lastOp.signal = "settings-changed" /\ gridReorder # 0)
       => /\ loggingEnabled = extensionSettings.loggingEnabled
          /\ Len(lastOp.log) >= 2
          /\ lastOp.log[1] = <<"loggingEnabled", gridReorder>>
          /\ lastOp.log[2] \in {<<"accept", gridReorder>>, <<"drop", gridReorder>>}
  /\ lastOp.op = "enable" => loggingEnabled = extensionSettings.loggingEnabled

\* logging-enabled is on after a settings change whose reorder request the
\* lock dropped.
C15_Witness ==
  /\ lastOp.op = "emit"
  /\ lastOp.signal = "settings-changed"
  /\ gridReorder # 0
  /\ Did("drop", gridReorder)
  /\ ~updatingPages
  /\ loggingEnabled
  /\ extensionSettings.loggingEnabled


Stores(w) ==
  [extensionSettings |-> w.extensionSettings, stateAdjustment |-> w.stateAdjustment,
   appDisplay |-> w.appDisplay, folderApps |-> w.folderApps]

\* C17: in every reachable state, whichever handler or timeout callback runs
\* next leaves the extension's settings, the overview's state and the host's
\* slots as they are, and leaves the folder store as it is unless its
\* reorderGrid call is accepted with sort-folder-contents set, in which case
\* the folder store is what reorderFolderContents makes of it.
C17_OnlyFolderOrderIsWritten ==
  \A n \in SUBSET NestPoints :
    /\ \A s \in Sources : \A i \in conns[s] :
          LET w2 == Handler(Nesting(n), s, i)
          IN  Stores(w2) =
                IF Ran(w2.log, "accept") /\ extensionSettings.sortFolderContents
                THEN [Stores(World) EXCEPT !.folderApps = reorderFolderContents(@)]
                ELSE Stores(World)
    /\ \A id \in DOMAIN timers :
          Stores(TimeoutCallback(Nesting(n), timers[id].inst)) = Stores(World)

\* A call was accepted with sort-folder-contents off and the unsorted folder
\* is still unsorted.
C17_Witness ==
  /\ lastOp.op = "emit"
  /\ gridReorder # 0
  /\ Did("accept", gridReorder)
  /\ ~extensionSettings.sortFolderContents
  /\ folderApps # reorderFolderContents(folderApps)


\* C18: with the extension enabled, the running controller holds the lock
\* exactly when one timeout source is pending, which is then its own and the
\* one whose id it stores; no second source is ever pending and none is
\* pending with the lock released.
C18_LockAndTimerAgree ==
  gridReorder # 0 =>
    LET c == insts[gridReorder]
    IN  /\ Cardinality(DOMAIN timers) <= 1
        /\ c.currentlyUpdating <=> Cardinality(DOMAIN timers) = 1
        /\ c.currentlyUpdating <=> c.reorderGridTimeoutId # 0
        /\ c.currentlyUpdating =>
              /\ DOMAIN timers = {c.reorderGridTimeoutId}
              /\ timers[c.reorderGridTimeoutId].inst = gridReorder

\* A reorder in flight whose source is due.
C18_Witness ==
  /\ gridReorder # 0
  /\ insts[gridReorder].currentlyUpdating
  /\ DOMAIN timers = {insts[gridReorder].reorderGridTimeoutId}
  /\ timers[insts[gridReorder].reorderGridTimeoutId].left = 0


\* C20: whenever the extension is disabled no handler is connected, no timeout
\* source is pending and no controller object is referenced; the state after
\* enable() has the new controller, and nothing else, connected once to each
\* of the seven signals, and its first reorderGrid call was accepted (lock
\* taken, one source pending) unless the host was updating pages, in which
\* case it was dropped with the lock free.
C20_NoLeakAcrossEnableDisable ==
  /\ gridReorder = 0 =>
        /\ \A s \in Sources : conns[s] = {}
        /\ timers = <<>>
        /\ DOMAIN insts = {}
  /\ lastOp.op = "enable" =>
        /\ gridReorder # 0
        /\ DOMAIN insts = {gridReorder}
        /\ \A s \in Sources : conns[s] = {gridReorder}
        /\ IF updatingPages
           THEN /\ Did("drop", gridReorder)
                /\ ~insts[gridReorder].currentlyUpdating
                /\ timers = <<>>
           ELSE /\ Did("accept", gridReorder)
                /\ insts[gridReorder].currentlyUpdating
                /\ Cardinality(DOMAIN timers) = 1

\* enable() after a disable() that cut a reorder in flight: the new
\* controller's first call was accepted.
C20_Witness ==
  /\ lastOp.op = "enable"
  /\ history.recycled
  /\ Did("accept", gridReorder)
  /\ \A s \in Sources : conns[s] = {gridReorder}
  /\ Cardinality(DOMAIN timers) = 1

====
